---- MODULE Spec2Model ----
(***************************************************************************)
(* Air-quality ETL (PurpleAir -> PostgreSQL): the retrying extractor, the  *)
(* transformer, the validator, the upsert and the orchestrator of          *)
(* src/etl/main.py, as one sequential state machine.                       *)
(***************************************************************************)
EXTENDS Integers, Sequences, FiniteSets, TLC

VARIABLES
    entry,          \* how the code was entered: "main", "run_full_etl" or "upsert_df"
    Config,         \* the configuration values the run reads
    pc,             \* position of the single thread of control
    attempt,        \* _fetch_multi_sensor: loop variable
    delay,          \* _fetch_multi_sensor: current delay, in milliseconds
    http,           \* every HTTP request made so far: <<[wait, status, body]>>
    extractOutcome, \* "none" | "returned" | "raised"
    api_data,       \* run_purpleair_etl: rows returned by the extractor
    df,             \* run_purpleair_etl: the transformed table
    issues,         \* run_purpleair_etl: what validate_dataframe returned
    stats,          \* AirQualityETL.stats
    log,            \* number of log events per level
    failedStep,     \* step of the primary pipeline that raised, or "none"
    conn,           \* the database connections opened so far and still open
    db,             \* calls made on the database driver
    table,          \* committed rows of <schema>.purpleair_readings
    txRows,         \* rows inserted by the open, uncommitted transaction
    stmtIdx,        \* execute_batch: index of the next statement
    uniqueKey,      \* columns of the table's primary key ({} = none)
    conflict_fields,\* upsert_df argument (<<>> = None)
    loads,          \* outcomes of the upsert_df calls of a direct caller
    exitCode        \* process exit status, NotExited until sys.exit

vars == <<entry, Config, pc, attempt, delay, http, extractOutcome, api_data, df,
          issues, stats, log, failedStep, conn, db, table, txRows, stmtIdx, uniqueKey,
          conflict_fields, loads, exitCode>>

(***************************************************************************)
(* Bounds                                                                  *)
(***************************************************************************)
MaxRows == 2        \* most data rows in one API response / one table
MaxSensors == 1     \* most configured sensors
MaxLoads == 2       \* most upsert_df calls of a direct caller
MaxCallRows == 3    \* most rows in the argument of a direct transform call

(***************************************************************************)
(* Program constants                                                       *)
(***************************************************************************)
max_retries == 5
InitialDelay == 500          \* 0.5 s, in milliseconds

(***************************************************************************)
(* Values, names, payloads                                                 *)
(***************************************************************************)
Num(n) == [t |-> "int", v |-> n]
NaN == [t |-> "null", v |-> 0]
Str == [t |-> "str", v |-> 0]
Timestamp(n) == [t |-> "ts", v |-> n]

\* Column names are sequences of tokens; "." and "_" are tokens of their own.
sensor_index == <<"sensor", "_", "index">>
sensor_id == <<"sensor", "_", "id">>
last_seen == <<"last", "_", "seen">>
time_stamp == <<"time", "_", "stamp">>
pm2_5_api == <<"pm2", ".", "5">>
pm2_5_atm_api == <<"pm2", ".", "5", "_", "atm">>
pm1_0_atm == <<"pm1", "_", "0", "_", "atm">>
pm2_5_atm == <<"pm2", "_", "5", "_", "atm">>
pm10_0_atm == <<"pm10", "_", "0", "_", "atm">>

\* time_stamp not required
REQUIRED_COLUMNS_idOnly == <<sensor_id>>
REQUIRED_COLUMNS == <<sensor_id, time_stamp>>
NON_NEGATIVE_COLUMNS == <<pm1_0_atm, pm2_5_atm, pm10_0_atm>>

Range(s) == {s[i] : i \in DOMAIN s}
Min(a, b) == IF a < b THEN a ELSE b

\* The field lists an API response may carry.
FieldLists ==
    { <<>>,
      <<sensor_index, last_seen, pm2_5_api>>,
      <<sensor_id, last_seen, pm2_5_atm_api>>,
      <<sensor_id, pm2_5_atm_api>> }

\* The values a cell of the response may hold, by field.
CellValues(f) ==
    IF f = last_seen THEN {Num(1700000000), NaN, Str}
    ELSE IF f \in {sensor_index, sensor_id} THEN {Num(101)}
    ELSE {Num(12), Num(-1), Str}

RowsFor(fields) ==
    {r \in [DOMAIN fields -> UNION {CellValues(fields[i]) : i \in DOMAIN fields}] :
        \A i \in DOMAIN fields : r[i] \in CellValues(fields[i])}

SeqsUpTo(S, n) == UNION {[1..k -> S] : k \in 0..n}

\* Response bodies {"fields": [...], "data": [[...], ...]}.
Payloads ==
    UNION {{[fields |-> f, data |-> d] : d \in SeqsUpTo(RowsFor(f), MaxRows)} :
              f \in FieldLists}

NoBody == [fields |-> <<>>, data |-> <<>>]
Statuses == {200, 404, 429, 500}

(***************************************************************************)
(* _fetch_multi_sensor: parsing of a successful response                   *)
(***************************************************************************)
\* dict(zip(field_names, row)): keys in first-insertion order, last value wins.
RECURSIVE Dedupe(_)
Dedupe(s) ==
    IF s = <<>> THEN <<>>
    ELSE LET front == Dedupe(SubSeq(s, 1, Len(s) - 1))
             x == s[Len(s)]
         IN  IF x \in Range(front) THEN front ELSE Append(front, x)

LastIndex(s, x) == CHOOSE i \in DOMAIN s : s[i] = x /\ \A j \in DOMAIN s : s[j] = x => j <= i
FirstIndex(s, x) == CHOOSE i \in DOMAIN s : s[i] = x /\ \A j \in DOMAIN s : s[j] = x => i <= j

DictZip(field_names, row) ==
    LET n == Min(Len(field_names), Len(row))
        ks == SubSeq(field_names, 1, n)
    IN  [keys |-> Dedupe(ks),
         val |-> [k \in Range(ks) |-> row[LastIndex(ks, k)]]]

ParseRows(body) == [i \in DOMAIN body.data |-> DictZip(body.fields, body.data[i])]

(***************************************************************************)
(* transform.py                                                            *)
(***************************************************************************)
EmptyFrame == [columns |-> <<>>, data |-> <<>>]

\* pd.DataFrame(list of dicts): columns in order of first appearance, a cell
\* a dict lacks is NaN.
RECURSIVE UnionKeys(_)
UnionKeys(dicts) ==
    IF dicts = <<>> THEN <<>>
    ELSE Dedupe(UnionKeys(SubSeq(dicts, 1, Len(dicts) - 1)) \o dicts[Len(dicts)].keys)

DataFrame(dicts) ==
    LET cols == UnionKeys(dicts)
    IN  [columns |-> cols,
         data |-> [i \in DOMAIN dicts |->
                     [j \in DOMAIN cols |->
                        IF cols[j] \in Range(dicts[i].keys)
                        THEN dicts[i].val[cols[j]] ELSE NaN]]]

\* a table counted empty only when it has no row
FrameEmpty_rowsOnly(d) == Len(d.data) = 0
\* len(df) and df.empty
FrameLen(d) == Len(d.data)
FrameEmpty(d) == Len(d.data) = 0 \/ Len(d.columns) = 0

\* the names left as they are
NormalizeName_unchanged(c) == c
\* c.replace(".", "_")
NormalizeName(c) == [i \in DOMAIN c |-> IF c[i] = "." THEN "_" ELSE c[i]]

_normalize_columns(d) ==
    [d EXCEPT !.columns = [j \in DOMAIN d.columns |-> NormalizeName(d.columns[j])]]

Column(d, name) == [i \in DOMAIN d.data |-> d.data[i][FirstIndex(d.columns, name)]]

\* pd.to_datetime(x, unit="s", utc=True) of one cell
ToDatetime(x) == IF x.t = "int" THEN Timestamp(x.v) ELSE NaN
ToDatetimeRaises(d) == \E i \in DOMAIN d.data : Column(d, last_seen)[i].t = "str"

RemoveAt(s, j) == SubSeq(s, 1, j - 1) \o SubSeq(s, j + 1, Len(s))

\* df["time_stamp"] = ...: a new column goes last, an existing one is overwritten
SetColumn(d, name, vals) ==
    IF name \in Range(d.columns)
    THEN [d EXCEPT !.data = [i \in DOMAIN d.data |->
                               [d.data[i] EXCEPT ![FirstIndex(d.columns, name)] = vals[i]]]]
    ELSE [columns |-> Append(d.columns, name),
          data |-> [i \in DOMAIN d.data |-> Append(d.data[i], vals[i])]]

DropColumn(d, name) ==
    LET j == FirstIndex(d.columns, name)
    IN  [columns |-> RemoveAt(d.columns, j),
         data |-> [i \in DOMAIN d.data |-> RemoveAt(d.data[i], j)]]

\* The steps after the frame is built: normalize the names, then derive
\* time_stamp from last_seen. The result is [ok |-> FALSE] when the
\* conversion raises.
NormalizeAndStamp(d0) ==
    LET d == _normalize_columns(d0)
    IN  IF last_seen \notin Range(d.columns) THEN [ok |-> TRUE, df |-> d]
        ELSE IF ToDatetimeRaises(d) THEN [ok |-> FALSE, df |-> EmptyFrame]
        ELSE [ok |-> TRUE,
              df |-> DropColumn(
                       SetColumn(d, time_stamp,
                                 [i \in DOMAIN d.data |->
                                    ToDatetime(Column(d, last_seen)[i])]),
                       last_seen)]

\* The argument is a list of row mappings (what the extractor returns).
transform_purpleair_data(rows) ==
    IF rows = <<>> THEN [ok |-> TRUE, df |-> EmptyFrame]
    ELSE NormalizeAndStamp(DataFrame(rows))

\* pd.DataFrame(api_data["data"], columns=api_data["fields"]): positional
\* rows; a row of another length than the columns raises.
FrameFromFields(p) == [columns |-> p.fields, data |-> p.data]
FrameFromFieldsRaises(p) == \E i \in DOMAIN p.data : Len(p.data[i]) # Len(p.fields)

\* The argument is a mapping holding "fields" and "data".
transform_purpleair_payload(p) ==
    IF FrameFromFieldsRaises(p) THEN [ok |-> FALSE, df |-> EmptyFrame]
    ELSE NormalizeAndStamp(FrameFromFields(p))

(***************************************************************************)
(* data_quality.py                                                         *)
(***************************************************************************)
Issue(kind, col, n) == [kind |-> kind, col |-> col, count |-> n]

RECURSIVE RequiredIssues(_, _)
RequiredIssues(d, cols) ==
    IF cols = <<>> THEN <<>>
    ELSE LET col == cols[1]
             here == IF col \notin Range(d.columns)
                     THEN <<Issue("Missing column", col, 0)>>
                     ELSE IF \E i \in DOMAIN d.data : Column(d, col)[i].t = "null"
                     THEN <<Issue("Null values", col, 0)>>
                     ELSE <<>>
         IN  here \o RequiredIssues(d, Tail(cols))

RECURSIVE NegativeIssues(_, _)
NegativeIssues(d, cols) ==
    IF cols = <<>> THEN <<>>
    ELSE LET col == cols[1]
             here == IF col \in Range(d.columns)
                        /\ \E i \in DOMAIN d.data :
                              Column(d, col)[i].t = "int" /\ Column(d, col)[i].v < 0
                     THEN <<Issue("Negative values", col, 0)>>
                     ELSE <<>>
         IN  here \o NegativeIssues(d, Tail(cols))

\* (df[col] < 0) raises TypeError on a column holding strings
CompareRaises(d) ==
    \E k \in DOMAIN NON_NEGATIVE_COLUMNS :
        /\ NON_NEGATIVE_COLUMNS[k] \in Range(d.columns)
        /\ \E i \in DOMAIN d.data : Column(d, NON_NEGATIVE_COLUMNS[k])[i].t = "str"

\* the groups counted in place of the rows
Duplicated_groups(d) ==
    LET key(i) == <<Column(d, sensor_id)[i], Column(d, time_stamp)[i]>>
    IN  Cardinality({key(i) : i \in {k \in DOMAIN d.data :
                                        \E j \in DOMAIN d.data : j # k /\ key(j) = key(k)}})
\* df.duplicated(subset=["sensor_id", "time_stamp"]).sum()
Duplicated(d) ==
    LET key(i) == <<Column(d, sensor_id)[i], Column(d, time_stamp)[i]>>
    IN  Cardinality({i \in DOMAIN d.data : \E j \in 1..(i - 1) : key(j) = key(i)})

DuplicateIssues(d) ==
    IF sensor_id \in Range(d.columns) /\ time_stamp \in Range(d.columns)
       /\ Duplicated(d) > 0
    THEN <<Issue("duplicate rows", <<>>, Duplicated(d))>>
    ELSE <<>>

\* The result is [ok |-> FALSE] when a check raises.
validate_dataframe(d) ==
    IF FrameEmpty(d) THEN [ok |-> TRUE, issues |-> <<>>]
    ELSE IF CompareRaises(d) THEN [ok |-> FALSE, issues |-> <<>>]
    ELSE [ok |-> TRUE,
          issues |-> RequiredIssues(d, REQUIRED_COLUMNS)
                       \o NegativeIssues(d, NON_NEGATIVE_COLUMNS)
                       \o DuplicateIssues(d)]

(***************************************************************************)
(* db_utils.py: the statement upsert_df builds and what the server does    *)
(* with one row of the batch                                               *)
(***************************************************************************)
\* a plain INSERT
ConflictClause_plain(cf) == [kind |-> "none", target |-> {}]
\* The ON CONFLICT clause of the INSERT: with a conflict target when
\* conflict_fields is given, blanket otherwise.
ConflictClause(cf) ==
    IF cf # <<>> THEN [kind |-> "target", target |-> Range(cf)]
    ELSE [kind |-> "any", target |-> {}]

\* tuple(row) stored under the columns of the INSERT
DbRow(cols, tuple) == [c \in Range(cols) |-> tuple[FirstIndex(cols, c)]]

\* A row's value of the primary key; the key columns are NOT NULL, so a row
\* lacking one, or holding NULL in one, is rejected.
HasKey(r, key) == key \subseteq DOMAIN r /\ \A c \in key : r[c].t # "null"
KeyOf(r, key) == [c \in key |-> r[c]]
Conflicts(r, key, rows) ==
    /\ key # {}
    /\ HasKey(r, key)
    /\ \E i \in DOMAIN rows : HasKey(rows[i], key) /\ KeyOf(rows[i], key) = KeyOf(r, key)

\* Outcome of one INSERT ... ON CONFLICT ... DO NOTHING
ExecInsert(clause, r, key, rows) ==
    IF clause.kind = "target" /\ clause.target # key THEN "error"
    ELSE IF key # {} /\ ~HasKey(r, key) THEN "error"
    ELSE IF Conflicts(r, key, rows)
         THEN (IF clause.kind = "none" THEN "error" ELSE "skipped")
         ELSE "inserted"

(***************************************************************************)
(* config.py                                                               *)
(***************************************************************************)
\* Config.validate()
validate(cfg) == cfg.DB_PASSWORD /\ cfg.PURPLEAIR_API_KEY /\ cfg.sensors > 0

(***************************************************************************)
(* Initial states                                                          *)
(***************************************************************************)
NotExited == -1

NewStats ==
    [purpleair_extracted |-> 0, purpleair_loaded |-> 0,
     rema_extracted |-> 0, rema_loaded |-> 0,
     errors |-> 0, quality_errors |-> 0,
     start_time |-> "None", end_time |-> "None"]

OldRow == [c \in {sensor_id, time_stamp, pm2_5_atm} |->
             IF c = sensor_id THEN Num(101)
             ELSE IF c = time_stamp THEN Timestamp(1700000000) ELSE Num(12)]

Configs ==
    [PURPLEAIR_API_KEY : BOOLEAN, sensors : 0..MaxSensors,
     DB_PASSWORD : BOOLEAN, REMA_API_URL : BOOLEAN]

InitCommon ==
    /\ attempt = 0
    /\ delay = 0
    /\ http = <<>>
    /\ extractOutcome = "none"
    /\ issues = <<>>
    /\ stats = NewStats
    /\ log = [INFO |-> 0, WARNING |-> 0, ERROR |-> 0]
    /\ failedStep = "none"
    /\ conn = 0
    /\ db = [connect |-> 0, execute |-> 0, commit |-> 0, close |-> 0,
             query |-> 0, faults |-> 0]
    /\ table \in {<<>>, <<OldRow>>}
    /\ txRows = <<>>
    /\ stmtIdx = 0
    /\ uniqueKey \in {{}, {sensor_id, time_stamp}}
    /\ loads = <<>>
    /\ exitCode = NotExited

\* The process is started through main(), or a caller runs run_full_etl()
\* on a fresh AirQualityETL.
Init ==
    /\ InitCommon
    /\ Config \in Configs
    /\ entry \in {"main", "run_full_etl"}
    /\ pc = entry
    /\ api_data = <<>>
    /\ df = EmptyFrame
    /\ conflict_fields = <<>>

cfgVars == <<entry, Config, uniqueKey, conflict_fields>>
fetchVars == <<attempt, delay, http, extractOutcome, api_data>>
dbVars == <<conn, db, table, txRows, stmtIdx>>

(***************************************************************************)
(* etl/main.py: main() up to the run                                       *)
(***************************************************************************)
Logged(level, n) == [log EXCEPT ![level] = @ + n]

MainValidate ==
    /\ pc = "main"
    /\ IF validate(Config)
       THEN /\ pc' = "run_full_etl"
            /\ UNCHANGED <<log, exitCode>>
       ELSE /\ log' = Logged("ERROR", 1)
            /\ exitCode' = 1
            /\ pc' = "exited"
    /\ UNCHANGED <<cfgVars, fetchVars, dbVars, df, issues, stats, failedStep, loads>>

\* the source run whatever the configuration
SourceConfigured_always(cfg) == TRUE
\* if Config.PURPLEAIR_API_KEY: run the source, else skip it
SourceConfigured(cfg) == cfg.PURPLEAIR_API_KEY

RunFullEtl ==
    /\ pc = "run_full_etl"
    /\ stats' = [stats EXCEPT !.start_time = "set"]
    /\ IF SourceConfigured(Config)
       THEN /\ log' = Logged("INFO", 5)
            /\ pc' = "extract"
       ELSE /\ log' = [log EXCEPT !.INFO = @ + 4, !.WARNING = @ + 1]
            /\ pc' = "rema"
    /\ UNCHANGED <<cfgVars, fetchVars, dbVars, df, issues, failedStep, loads, exitCode>>

(***************************************************************************)
(* run_purpleair_etl: the except clause, then the one of run_full_etl      *)
(***************************************************************************)
\* the failure swallowed and the load gone on with
Raise_noReraise(step) ==
    /\ stats' = [stats EXCEPT !.errors = @ + 1]
    /\ log' = Logged("ERROR", 2)
    /\ failedStep' = step
    /\ pc' = "load_connect"

\* the failure counted and not logged
Raise_silent(step) ==
    /\ stats' = [stats EXCEPT !.errors = @ + 1]
    /\ log' = log
    /\ failedStep' = step
    /\ pc' = "rema"

\* the except clause re-raising without counting
Raise_uncounted(step) ==
    /\ stats' = stats
    /\ log' = Logged("ERROR", 2)
    /\ failedStep' = step
    /\ pc' = "rema"

Raise(step) ==
    /\ stats' = [stats EXCEPT !.errors = @ + 1]
    /\ log' = Logged("ERROR", 2)
    /\ failedStep' = step
    /\ pc' = "rema"

(***************************************************************************)
(* extract_purpleair.py                                                    *)
(***************************************************************************)
\* the sensor check left out
NoSensors_unchecked(cfg) == FALSE
\* if not sensors: raise ValueError
NoSensors(cfg) == cfg.sensors = 0
\* server errors retried like a 429
IsRateLimited_serverErrors(status) == status = 429 \/ status >= 500
IsRateLimited(status) == status = 429
RaisesForStatus(status) == status >= 400
\* delay += 0.5 in place of delay *= 2
NextDelay_linear(d) == d + InitialDelay
NextDelay(d) == d * 2
\* the last request tolerating a 429
FinalRaises_except429(status) == status >= 400 /\ status # 429
\* resp.raise_for_status() of the request after the loop
FinalRaises(status) == status >= 400
BodiesOf(status) == IF RaisesForStatus(status) THEN {NoBody} ELSE Payloads

extract_purpleair_data ==
    /\ pc = "extract"
    /\ IF NoSensors(Config)
       THEN /\ extractOutcome' = "raised"
            /\ Raise("extract")
            /\ UNCHANGED <<attempt, delay>>
       ELSE /\ delay' = InitialDelay
            /\ attempt' = 0
            /\ pc' = "fetch"
            /\ UNCHANGED <<extractOutcome, stats, log, failedStep>>
    /\ UNCHANGED <<cfgVars, http, api_data, dbVars, df, issues, loads, exitCode>>

\* One iteration of the retry loop: sleep, request, dispatch on the status.
\* the request sent without sleeping first
Slept_skipped(d) == 0
\* time.sleep(delay): the wait that precedes the request of an attempt
Slept(d) == d

FetchAttempt ==
    /\ pc = "fetch"
    /\ attempt < max_retries
    /\ \E status \in Statuses : \E body \in BodiesOf(status) :
          /\ http' = Append(http, [wait |-> Slept(delay), status |-> status, body |-> body])
          /\ IF IsRateLimited(status)
             THEN /\ delay' = NextDelay(delay)
                  /\ attempt' = attempt + 1
                  /\ UNCHANGED <<pc, extractOutcome, api_data, stats, log, failedStep>>
             ELSE IF RaisesForStatus(status)
             THEN /\ extractOutcome' = "raised"
                  /\ Raise("extract")
                  /\ UNCHANGED <<attempt, delay, api_data>>
             ELSE /\ api_data' = ParseRows(body)
                  /\ extractOutcome' = "returned"
                  /\ pc' = "transform"
                  /\ UNCHANGED <<attempt, delay, stats, log, failedStep>>
    /\ UNCHANGED <<cfgVars, dbVars, df, issues, loads, exitCode>>

\* the request after the loop waiting like an attempt of the loop
FinalWait_slept(d) == d
\* no time.sleep between the end of the loop and the request after it
FinalWait(d) == 0

\* The request after the loop: no sleep, raise_for_status on any status >= 400.
FetchFinal ==
    /\ pc = "fetch"
    /\ attempt >= max_retries
    /\ \E status \in Statuses : \E body \in BodiesOf(status) :
          /\ http' = Append(http, [wait |-> FinalWait(delay), status |-> status, body |-> body])
          /\ IF FinalRaises(status)
             THEN /\ extractOutcome' = "raised"
                  /\ Raise("extract")
                  /\ UNCHANGED api_data
             ELSE /\ api_data' = ParseRows(body)
                  /\ extractOutcome' = "returned"
                  /\ pc' = "transform"
                  /\ UNCHANGED <<stats, log, failedStep>>
    /\ UNCHANGED <<cfgVars, attempt, delay, dbVars, df, issues, loads, exitCode>>

(***************************************************************************)
(* run_purpleair_etl: transform, validate                                  *)
(***************************************************************************)
Transform ==
    /\ pc = "transform"
    /\ LET r == transform_purpleair_data(api_data)
       IN  IF r.ok
           THEN /\ df' = r.df
                /\ stats' = [stats EXCEPT !.purpleair_extracted = FrameLen(r.df)]
                /\ pc' = "validate"
                /\ UNCHANGED <<log, failedStep>>
           ELSE /\ Raise("transform")
                /\ UNCHANGED df
    /\ UNCHANGED <<cfgVars, fetchVars, dbVars, issues, loads, exitCode>>

\* the issues counted once, whatever their number
CountIssues_once(q, found) == q + 1
\* self.stats['quality_errors'] += len(issues)
CountIssues(q, found) == q + Len(found)

Validate ==
    /\ pc = "validate"
    /\ LET r == validate_dataframe(df)
       IN  IF ~r.ok
           THEN Raise("validate") /\ UNCHANGED issues
           ELSE /\ issues' = r.issues
                /\ stats' = [stats EXCEPT !.quality_errors = CountIssues(@, r.issues)]
                /\ IF FrameEmpty(df)
                   THEN /\ log' = Logged("WARNING", Len(r.issues) + 1)
                        /\ pc' = "rema"
                   ELSE /\ log' = Logged("WARNING", Len(r.issues))
                        /\ pc' = "load_connect"
                /\ UNCHANGED failedStep
    /\ UNCHANGED <<cfgVars, fetchVars, dbVars, df, loads, exitCode>>

(***************************************************************************)
(* Load: get_pgsql_cxn around upsert_df                                    *)
(***************************************************************************)
\* the connection left open
FinallyClose_leak(c) == c
\* finally: conn.close()
FinallyClose(c) == c - 1
\* the open transaction flushed on close
ClosedUncommitted_flushed(tbl, tx) == tbl \o tx
\* What the table holds once a connection is closed without commit: the
\* server discards the open transaction.
ClosedUncommitted(tbl, tx) == tbl
\* cxn.commit()
Committed(tbl, tx) == tbl \o tx

\* The call returns to a direct caller of upsert_df, who may load again.
LoadReturn(outcome, tbl) ==
    /\ loads' = Append(loads, [outcome |-> outcome, count |-> Len(tbl)])
    /\ pc' = IF Len(loads) + 1 < MaxLoads THEN "load_connect" ELSE "done"

LoadFail(step) ==
    IF entry = "upsert_df"
    THEN LoadReturn("raised", table') /\ UNCHANGED <<stats, log, failedStep>>
    ELSE Raise(step) /\ UNCHANGED loads

\* with get_pgsql_cxn(...) as cxn: psycopg2.connect succeeds or raises
LoadConnect ==
    /\ pc = "load_connect"
    /\ \E ok \in BOOLEAN :
          IF ok
          THEN /\ conn' = conn + 1
               /\ db' = [db EXCEPT !.connect = @ + 1]
               /\ stmtIdx' = 1
               /\ txRows' = <<>>
               /\ pc' = "load_execute"
               /\ UNCHANGED <<table, stats, log, failedStep, loads>>
          ELSE /\ db' = [db EXCEPT !.connect = @ + 1, !.faults = @ + 1]
               /\ UNCHANGED <<conn, table, txRows, stmtIdx>>
               /\ LoadFail("load")
    /\ UNCHANGED <<cfgVars, fetchVars, df, issues, exitCode>>

\* upsert_df returned inside the with block of run_purpleair_etl
\* the counter taken from the rows the server inserted
UpsertReturned_inserted ==
    IF entry = "upsert_df" THEN UNCHANGED stats
    ELSE stats' = [stats EXCEPT !.purpleair_loaded = Len(txRows)]
UpsertReturned ==
    IF entry = "upsert_df" THEN UNCHANGED stats
    ELSE stats' = [stats EXCEPT !.purpleair_loaded = FrameLen(df)]

\* upsert_df up to the commit: the early return on an empty table, else one
\* statement of execute_batch, which the server runs or rejects.
LoadExecute ==
    /\ pc = "load_execute"
    /\ IF FrameEmpty(df)
       THEN /\ UpsertReturned
            /\ pc' = "load_close"
            /\ UNCHANGED <<dbVars, log, failedStep, loads>>
       ELSE \E fault \in BOOLEAN :
              LET r == DbRow(df.columns, df.data[stmtIdx])
                  res == IF fault THEN "error"
                         ELSE ExecInsert(ConflictClause(conflict_fields), r,
                                         uniqueKey, table \o txRows)
              IN  IF res = "error"
                  THEN /\ db' = [db EXCEPT !.execute = @ + 1, !.close = @ + 1,
                                           !.faults = @ + (IF fault THEN 1 ELSE 0)]
                       /\ conn' = FinallyClose(conn)
                       /\ table' = ClosedUncommitted(table, txRows)
                       /\ txRows' = <<>>
                       /\ UNCHANGED stmtIdx
                       /\ LoadFail("load")
                  ELSE /\ db' = [db EXCEPT !.execute = @ + 1]
                       /\ txRows' = IF res = "inserted" THEN Append(txRows, r) ELSE txRows
                       /\ stmtIdx' = stmtIdx + 1
                       /\ pc' = IF stmtIdx = FrameLen(df) THEN "load_commit"
                                ELSE "load_execute"
                       /\ UNCHANGED <<conn, table, stats, log, failedStep, loads>>
    /\ UNCHANGED <<cfgVars, fetchVars, df, issues, exitCode>>

LoadCommit ==
    /\ pc = "load_commit"
    /\ \E fault \in BOOLEAN :
          IF fault
          THEN /\ db' = [db EXCEPT !.commit = @ + 1, !.close = @ + 1, !.faults = @ + 1]
               /\ conn' = FinallyClose(conn)
               /\ table' = ClosedUncommitted(table, txRows)
               /\ txRows' = <<>>
               /\ UNCHANGED stmtIdx
               /\ LoadFail("load")
          ELSE /\ db' = [db EXCEPT !.commit = @ + 1]
               /\ table' = Committed(table, txRows)
               /\ txRows' = <<>>
               /\ UpsertReturned
               /\ pc' = "load_close"
               /\ UNCHANGED <<conn, stmtIdx, log, failedStep, loads>>
    /\ UNCHANGED <<cfgVars, fetchVars, df, issues, exitCode>>

\* Leaving the with block normally.
LoadClose ==
    /\ pc = "load_close"
    /\ conn' = FinallyClose(conn)
    /\ db' = [db EXCEPT !.close = @ + 1]
    /\ table' = ClosedUncommitted(table, txRows)
    /\ txRows' = <<>>
    /\ IF entry = "upsert_df"
       THEN LoadReturn("ok", table') /\ UNCHANGED log
       ELSE /\ log' = Logged("INFO", 1)
            /\ pc' = "rema"
            /\ UNCHANGED loads
    /\ UNCHANGED <<cfgVars, fetchVars, df, issues, stats, failedStep, stmtIdx, exitCode>>

(***************************************************************************)
(* run_full_etl: the secondary source, the report                          *)
(***************************************************************************)
RunRema ==
    /\ pc = "rema"
    /\ log' = IF Config.REMA_API_URL THEN Logged("INFO", 1) ELSE log
    /\ pc' = "report"
    /\ UNCHANGED <<cfgVars, fetchVars, dbVars, df, issues, stats, failedStep, loads, exitCode>>

Report ==
    /\ pc = "report"
    /\ stats' = [stats EXCEPT !.end_time = "set"]
    /\ log' = Logged("INFO", 7)
    /\ pc' = IF entry = "main" THEN "main_check" ELSE "done"
    /\ UNCHANGED <<cfgVars, fetchVars, dbVars, df, issues, failedStep, loads, exitCode>>

(***************************************************************************)
(* main(): verification and exit                                           *)
(***************************************************************************)
\* quality issues failing the run
ExitStatus_quality(st) == IF st.errors = 0 /\ st.quality_errors = 0 THEN 0 ELSE 1
ExitStatus(st) == IF st.errors = 0 THEN 0 ELSE 1
\* verification run after every run
ShouldVerify_always(st) == TRUE
ShouldVerify(st) == st.errors = 0
NumVerifyQueries == 3

MainCheck ==
    /\ pc = "main_check"
    /\ pc' = IF ShouldVerify(stats) THEN "verify_connect" ELSE "main_exit"
    /\ UNCHANGED <<cfgVars, fetchVars, dbVars, df, issues, stats, log, failedStep, loads, exitCode>>

VerifyConnect ==
    /\ pc = "verify_connect"
    /\ \E ok \in BOOLEAN :
          IF ok
          THEN /\ conn' = conn + 1
               /\ db' = [db EXCEPT !.connect = @ + 1]
               /\ stmtIdx' = 1
               /\ log' = Logged("INFO", 1)
               /\ pc' = "verify_query"
          ELSE /\ db' = [db EXCEPT !.connect = @ + 1, !.faults = @ + 1]
               /\ log' = [log EXCEPT !.INFO = @ + 1, !.ERROR = @ + 1]
               /\ pc' = "main_exit"
               /\ UNCHANGED <<conn, stmtIdx>>
    /\ UNCHANGED <<cfgVars, fetchVars, table, txRows, df, issues, stats, failedStep, loads, exitCode>>

NegativeCount(tbl) ==
    Cardinality({i \in DOMAIN tbl :
        \E c \in {pm2_5_atm, pm10_0_atm} :
            c \in DOMAIN tbl[i] /\ tbl[i][c].t = "int" /\ tbl[i][c].v < 0})

DuplicateGroups(tbl) ==
    {<<tbl[i][sensor_id], tbl[i][time_stamp]>> :
        i \in {k \in DOMAIN tbl :
                 /\ {sensor_id, time_stamp} \subseteq DOMAIN tbl[k]
                 /\ \E j \in DOMAIN tbl :
                       /\ j # k
                       /\ {sensor_id, time_stamp} \subseteq DOMAIN tbl[j]
                       /\ tbl[j][sensor_id] = tbl[k][sensor_id]
                       /\ tbl[j][time_stamp] = tbl[k][time_stamp]}}

\* The three pd.read_sql calls, one per step; any of them may raise.
VerifyQuery ==
    /\ pc = "verify_query"
    /\ \E fault \in BOOLEAN :
          IF fault
          THEN /\ db' = [db EXCEPT !.query = @ + 1, !.close = @ + 1, !.faults = @ + 1]
               /\ conn' = FinallyClose(conn)
               /\ log' = Logged("ERROR", 1)
               /\ pc' = "main_exit"
               /\ UNCHANGED stmtIdx
          ELSE /\ db' = [db EXCEPT !.query = @ + 1]
               /\ log' = IF stmtIdx = 1 THEN Logged("INFO", 4)
                         ELSE IF stmtIdx = 2
                         THEN Logged("WARNING", IF NegativeCount(table) > 0 THEN 1 ELSE 0)
                         ELSE Logged("WARNING", IF DuplicateGroups(table) # {} THEN 1 ELSE 0)
               /\ stmtIdx' = stmtIdx + 1
               /\ pc' = IF stmtIdx = NumVerifyQueries THEN "verify_close" ELSE "verify_query"
               /\ UNCHANGED conn
    /\ UNCHANGED <<cfgVars, fetchVars, table, txRows, df, issues, stats, failedStep, loads, exitCode>>

VerifyClose ==
    /\ pc = "verify_close"
    /\ conn' = FinallyClose(conn)
    /\ db' = [db EXCEPT !.close = @ + 1]
    /\ pc' = "main_exit"
    /\ UNCHANGED <<cfgVars, fetchVars, table, txRows, stmtIdx, df, issues, stats, log,
                   failedStep, loads, exitCode>>

\* sys.exit(0 if stats['errors'] == 0 else 1)
MainExit ==
    /\ pc = "main_exit"
    /\ exitCode' = ExitStatus(stats)
    /\ pc' = "exited"
    /\ UNCHANGED <<cfgVars, fetchVars, dbVars, df, issues, stats, log, failedStep, loads>>

Next ==
    \/ MainValidate
    \/ RunFullEtl
    \/ extract_purpleair_data
    \/ FetchAttempt
    \/ FetchFinal
    \/ Transform
    \/ Validate
    \/ LoadConnect
    \/ LoadExecute
    \/ LoadCommit
    \/ LoadClose
    \/ RunRema
    \/ Report
    \/ MainCheck
    \/ VerifyConnect
    \/ VerifyQuery
    \/ VerifyClose
    \/ MainExit

Spec == Init /\ [][Next]_vars

(***************************************************************************)
(* A direct caller of db_utils: the same table loaded MaxLoads times, each *)
(* time through a fresh get_pgsql_cxn                                      *)
(***************************************************************************)
LoadFrames ==
    {transform_purpleair_data(ParseRows(p)).df :
        p \in {q \in Payloads : transform_purpleair_data(ParseRows(q)).ok}}

ConflictFieldChoices == {<<>>, <<sensor_id, time_stamp>>, <<sensor_id>>}

InitLoad ==
    /\ InitCommon
    /\ Config = [PURPLEAIR_API_KEY |-> TRUE, sensors |-> 1,
                 DB_PASSWORD |-> TRUE, REMA_API_URL |-> FALSE]
    /\ entry = "upsert_df"
    /\ pc = "load_connect"
    /\ api_data = <<>>
    /\ df \in LoadFrames
    /\ conflict_fields \in ConflictFieldChoices

NextLoad ==
    \/ LoadConnect
    \/ LoadExecute
    \/ LoadCommit
    \/ LoadClose

SpecLoad == InitLoad /\ [][NextLoad]_vars

SpecRunOrLoad == (Init \/ InitLoad) /\ [][Next]_vars

TypeOK ==
    /\ pc \in {"call_transform", "call_validate", "returned", "raised",
               "main", "run_full_etl", "extract", "fetch", "transform", "validate",
               "load_connect", "load_execute", "load_commit", "load_close", "rema",
               "report", "main_check", "verify_connect", "verify_query",
               "verify_close", "main_exit", "exited", "done"}
    /\ conn \in 0..1
    /\ exitCode \in {NotExited, 0, 1}

(***************************************************************************)
(* A direct caller of the transformer and the validator: one payload, in   *)
(* either wire shape, transformed and then validated                       *)
(***************************************************************************)
last_seen_dotted == <<"last", ".", "seen">>

CallFieldLists ==
    FieldLists \cup { <<pm2_5_atm_api>>,
                      <<sensor_id, last_seen_dotted>>,
                      <<sensor_id, time_stamp, last_seen>> }

CallPayloads ==
    UNION {{[fields |-> f, data |-> d] : d \in SeqsUpTo(RowsFor(f), MaxCallRows)} :
              f \in CallFieldLists}

\* The argument of the call: the {fields, data} mapping, or the list of row
\* mappings made of it.
CallArguments ==
    {[shape |-> "dict", fields |-> p.fields, data |-> p.data, rows |-> <<>>] :
        p \in CallPayloads}
    \cup {[shape |-> "list", fields |-> <<>>, data |-> <<>>, rows |-> ParseRows(p)] :
        p \in CallPayloads}

InitCall ==
    /\ InitCommon
    /\ Config = [PURPLEAIR_API_KEY |-> TRUE, sensors |-> 1,
                 DB_PASSWORD |-> TRUE, REMA_API_URL |-> FALSE]
    /\ entry = "transform_purpleair_data"
    /\ pc = "call_transform"
    /\ api_data \in CallArguments
    /\ df = EmptyFrame
    /\ conflict_fields = <<>>

\* if isinstance(api_data, dict) and "data" in api_data and "fields" in api_data
CallTransform ==
    /\ pc = "call_transform"
    /\ LET r == IF api_data.shape = "dict"
                THEN transform_purpleair_payload(api_data)
                ELSE transform_purpleair_data(api_data.rows)
       IN  IF r.ok
           THEN df' = r.df /\ pc' = "call_validate" /\ UNCHANGED failedStep
           ELSE failedStep' = "transform" /\ pc' = "raised" /\ UNCHANGED df
    /\ UNCHANGED <<cfgVars, fetchVars, dbVars, issues, stats, log, loads, exitCode>>

CallValidate ==
    /\ pc = "call_validate"
    /\ LET r == validate_dataframe(df)
       IN  IF r.ok
           THEN issues' = r.issues /\ pc' = "returned" /\ UNCHANGED failedStep
           ELSE failedStep' = "validate" /\ pc' = "raised" /\ UNCHANGED issues
    /\ UNCHANGED <<cfgVars, fetchVars, dbVars, df, stats, log, loads, exitCode>>

NextCall ==
    \/ CallTransform
    \/ CallValidate

SpecCall == InitCall /\ [][NextCall]_vars

(***************************************************************************)
(* Properties                                                              *)
(***************************************************************************)
\* The rows the extractor returned are the rows of the body, cell by cell.
RowsMatch(rows, body) ==
    /\ Len(rows) = Len(body.data)
    /\ \A i \in DOMAIN rows :
          /\ rows[i].keys = body.fields
          /\ \A j \in DOMAIN body.fields :
                rows[i].val[body.fields[j]] = body.data[i][j]

All429 == \A i \in DOMAIN http : http[i].status = 429

\* C1: k rate-limit responses (0 <= k < 5) followed by a success give exactly
\* k+1 requests, each wait after a 429 is twice the wait before it, and the
\* rows returned are those of the success response.
C1_RetryThenSuccess ==
    \A k \in 0..(max_retries - 1) :
        (/\ Len(http) >= k + 1
         /\ \A i \in 1..k : http[i].status = 429
         /\ http[k + 1].status = 200)
        => /\ Len(http) = k + 1
           /\ \A i \in 2..(k + 1) : http[i].wait = 2 * http[i - 1].wait
           /\ extractOutcome = "returned"
           /\ RowsMatch(api_data, http[k + 1].body)

C1_Witness ==
    /\ Len(http) = 3
    /\ http[1].status = 429 /\ http[2].status = 429 /\ http[3].status = 200
    /\ http[3].wait = 2 * http[2].wait
    /\ extractOutcome = "returned"
    /\ Len(api_data) >= 1

\* C2: a response with status >= 400 other than 429 is the last request of
\* the extractor, which raises; a single 500 gives one request and an error.
C2_FatalStatusNoRetry ==
    \A i \in DOMAIN http :
        (http[i].status >= 400 /\ http[i].status # 429)
        => (i = Len(http) /\ extractOutcome = "raised" /\ stats.errors = 1)

C2_Witness ==
    /\ Len(http) = 1
    /\ http[1].status = 500
    /\ extractOutcome = "raised"
    /\ pc = "done"

\* C3: at most 5 attempts plus one final request are made; when every
\* response is a 429 the extractor has ended only after exactly 6 requests,
\* and the outcome of the 6th request is surfaced as it is.
C3_ExhaustedRetries ==
    /\ Len(http) <= max_retries + 1
    /\ (http # <<>> /\ All429 /\ extractOutcome # "none")
          => (Len(http) = max_retries + 1 /\ extractOutcome = "raised")
    /\ Len(http) = max_retries + 1
          => /\ \A i \in 1..max_retries : http[i].status = 429
             /\ extractOutcome =
                  (IF http[max_retries + 1].status >= 400 THEN "raised" ELSE "returned")
             /\ http[max_retries + 1].status < 400
                   => RowsMatch(api_data, http[max_retries + 1].body)

C3_Witness ==
    /\ Len(http) = max_retries + 1
    /\ All429
    /\ extractOutcome = "raised"
    /\ stats.end_time = "set"

\* C4: with no sensors configured no HTTP request is ever made and the
\* extractor, if called, fails; a process started through main() makes no
\* database connection either and exits with status 1.
C4_NoSensorsFailsFast ==
    Config.sensors = 0
    => /\ http = <<>>
       /\ extractOutcome \in {"none", "raised"}
       /\ entry = "main"
             => /\ db.connect = 0
                /\ conn = 0
                /\ pc = "exited" => exitCode = 1

C4_Witness ==
    /\ Config.sensors = 0
    /\ extractOutcome = "raised"
    /\ http = <<>>
    /\ stats.errors = 1

\* C5: once a run has ended and the process exited, the exit status is 0
\* exactly when the error counter is 0, whatever the quality-issue counter.
C5_ExitStatusIffNoErrors ==
    (pc = "exited" /\ stats.end_time = "set")
    => (exitCode = 0 <=> stats.errors = 0)

C5_Witness ==
    /\ pc = "exited"
    /\ stats.end_time = "set"
    /\ stats.quality_errors > 0
    /\ exitCode = 0

AfterPipeline == {"rema", "report", "main_check", "verify_connect", "verify_query",
                  "verify_close", "main_exit", "exited", "done"}
RunReturned == {"main_check", "verify_connect", "verify_query", "verify_close",
                "main_exit", "done"}

\* C6: a step of the primary pipeline that raises adds exactly one to the
\* error counter, the later steps of the source are not run, and the run goes
\* on to the secondary source, the report and the return of the stats.
C6_StepFailureContained ==
    /\ extractOutcome = "raised" <=> failedStep = "extract"
    /\ failedStep = "transform" => ~transform_purpleair_data(api_data).ok
    /\ failedStep = "validate" => ~validate_dataframe(df).ok
    /\ failedStep = "none" => stats.errors = 0
    /\ failedStep # "none"
          => /\ stats.errors = 1
             /\ pc \in AfterPipeline
             /\ stats.purpleair_loaded = 0
             /\ conn = 0
    /\ failedStep \in {"extract", "transform"}
          => /\ stats.purpleair_extracted = 0
             /\ stats.quality_errors = 0
             /\ df = EmptyFrame
    /\ failedStep \in {"extract", "transform", "validate"} => db.connect = 0
    /\ pc \in RunReturned => stats.end_time = "set"
    /\ (pc = "exited" /\ stats.start_time = "set") => stats.end_time = "set"

C6_Witness ==
    /\ failedStep = "load"
    /\ stats.errors = 1
    /\ stats.end_time = "set"
    /\ pc = "done"

\* C7 as stated: with the API key or the sensor list absent the source is
\* skipped, nothing is extracted and no hard error is counted.
C7_Original ==
    (stats.start_time = "set" /\ pc # "extract"
        /\ (~Config.PURPLEAIR_API_KEY \/ Config.sensors = 0))
    => (http = <<>> /\ extractOutcome = "none" /\ stats.errors = 0)

\* C7 amended: with the API key absent the source is skipped (one warning,
\* no extraction, no hard error); with the key present and the sensor list
\* absent no request is made but the extractor raises and one hard error is
\* counted and logged.
C7_Amended ==
    (stats.start_time = "set" /\ pc # "extract")
    => /\ ~Config.PURPLEAIR_API_KEY
             => /\ http = <<>>
                /\ extractOutcome = "none"
                /\ stats.errors = 0
                /\ log.WARNING = 1
                /\ log.ERROR = 0
       /\ (Config.PURPLEAIR_API_KEY /\ Config.sensors = 0)
             => /\ http = <<>>
                /\ extractOutcome = "raised"
                /\ stats.errors = 1
                /\ log.ERROR >= 1

C7_Witness ==
    /\ ~Config.PURPLEAIR_API_KEY
    /\ pc = "done"
    /\ log.WARNING = 1
    /\ http = <<>>

\* C8: commit is called only once every statement of the batch has run; a
\* failing statement or commit leaves the table as it was, closes the
\* connection and reaches the caller as one hard error.
C8_CommitAfterWholeBatch ==
    [][ /\ db'.commit > db.commit
            => /\ pc = "load_commit"
               /\ stmtIdx = FrameLen(df) + 1
               /\ db.execute = FrameLen(df)
        /\ table' # table
            => /\ db'.commit = db.commit + 1
               /\ pc' = "load_close"
        /\ (pc \in {"load_execute", "load_commit"} /\ failedStep' = "load")
            => /\ table' = table
               /\ stats'.errors = stats.errors + 1
               /\ conn' = 0
               /\ pc = "load_execute" => db'.commit = db.commit
      ]_vars

C8_Witness ==
    /\ failedStep = "load"
    /\ db.execute = 2
    /\ db.commit = 0
    /\ stats.errors = 1

\* C9: at most one connection is open, only inside a load or verification
\* step, and none once the step, the run or the process has ended.
C9_ConnectionScoped ==
    /\ conn \in {0, 1}
    /\ pc \notin {"load_execute", "load_commit", "load_close",
                  "verify_query", "verify_close"} => conn = 0
    /\ db.close <= db.connect

C9_Witness ==
    /\ pc = "exited"
    /\ db.close = 2
    /\ conn = 0

Matching == conflict_fields # <<>> /\ Range(conflict_fields) = uniqueKey

NoDuplicateKeys(tbl) ==
    \A i, j \in DOMAIN tbl :
        (i # j /\ HasKey(tbl[i], uniqueKey) /\ HasKey(tbl[j], uniqueKey))
        => KeyOf(tbl[i], uniqueKey) # KeyOf(tbl[j], uniqueKey)

\* C10: with conflict columns matching the key, every load after a first
\* successful one succeeds and leaves the row count of the first, the table
\* holds no two rows of one key, and no stored row is ever changed.
C10_Idempotent ==
    /\ [](Matching => NoDuplicateKeys(table))
    /\ []((Matching /\ db.faults = 0 /\ loads # <<>> /\ loads[1].outcome = "ok")
            => \A i \in DOMAIN loads :
                  loads[i].outcome = "ok" /\ loads[i].count = loads[1].count)
    /\ [][\A i \in DOMAIN table : i \in DOMAIN table' /\ table'[i] = table[i]]_vars

C10_Witness ==
    /\ Matching
    /\ db.faults = 0
    /\ Len(loads) >= 2
    /\ loads[2].outcome = "ok"
    /\ loads[2].count = 1
    /\ db.execute >= 2

\* The issues of one kind, and the required columns a table lacks.
IssuesOfKind(found, kind) == {i \in DOMAIN found : found[i].kind = kind}
MissingRequired(d) == {sensor_id, time_stamp} \ Range(d.columns)
IsEmptyTable(d) == Len(d.data) = 0 \/ Len(d.columns) = 0

\* C14 as stated: every table, the empty ones included, gets exactly one
\* missing-column issue per required column it lacks.
C14_Original ==
    pc = "returned"
    => /\ Cardinality(IssuesOfKind(issues, "Missing column"))
             = Cardinality(MissingRequired(df))
       /\ \A c \in MissingRequired(df) :
             Cardinality({i \in IssuesOfKind(issues, "Missing column") :
                            issues[i].col = c}) = 1

\* C14 amended: a table with at least one row and one column gets exactly one
\* missing-column issue per required column it lacks, whatever its rows hold;
\* a table with no row or no column gets no issue at all.
C14_Amended ==
    pc = "returned"
    => IF IsEmptyTable(df) THEN issues = <<>>
       ELSE /\ Cardinality(IssuesOfKind(issues, "Missing column"))
                  = Cardinality(MissingRequired(df))
            /\ \A c \in MissingRequired(df) :
                  Cardinality({i \in IssuesOfKind(issues, "Missing column") :
                                 issues[i].col = c}) = 1

C14_Witness ==
    /\ pc = "returned"
    /\ ~IsEmptyTable(df)
    /\ MissingRequired(df) = {sensor_id, time_stamp}
    /\ Cardinality(IssuesOfKind(issues, "Missing column")) = 2

\* The (sensor_id, time_stamp) pairs of a table holding both columns.
PairAt(d, i) == <<Column(d, sensor_id)[i], Column(d, time_stamp)[i]>>
DistinctPairs(d) == {PairAt(d, i) : i \in DOMAIN d.data}

\* C15: a validated table holding both key columns gets one duplicate issue
\* whose count is the row count minus the number of distinct pairs when that
\* is positive, and no duplicate issue otherwise.
C15_DuplicateRowsCounted ==
    (pc = "returned" /\ ~IsEmptyTable(df)
        /\ {sensor_id, time_stamp} \subseteq Range(df.columns))
    => LET n == Len(df.data) - Cardinality(DistinctPairs(df))
           dups == IssuesOfKind(issues, "duplicate rows")
       IN  IF n > 0
           THEN Cardinality(dups) = 1 /\ \A i \in dups : issues[i].count = n
           ELSE dups = {}

C15_Witness ==
    /\ pc = "returned"
    /\ {sensor_id, time_stamp} \subseteq Range(df.columns)
    /\ Len(df.data) = 3
    /\ Cardinality(DistinctPairs(df)) = 1
    /\ \E i \in DOMAIN issues : issues[i].kind = "duplicate rows" /\ issues[i].count = 2

\* The column set C16 expects of a {fields, data} payload.
DotsToUnderscores(c) == [i \in DOMAIN c |-> IF c[i] = "." THEN "_" ELSE c[i]]
ExpectedColumns(fields) ==
    LET normalized == {DotsToUnderscores(fields[i]) : i \in DOMAIN fields}
    IN  IF last_seen \in normalized
        THEN (normalized \ {last_seen}) \cup {time_stamp}
        ELSE normalized

\* C16: the columns the transformer gives a {fields, data} payload are the
\* dot-normalized fields with time_stamp in place of last_seen; without
\* last_seen among the normalized fields no time_stamp column is added.
C16_TransformColumns ==
    (api_data.shape = "dict" /\ pc \in {"call_validate", "returned"})
    => /\ Range(df.columns) = ExpectedColumns(api_data.fields)
       /\ Len(df.data) = Len(api_data.data)

C16_Witness ==
    /\ api_data.shape = "dict"
    /\ pc = "call_validate"
    /\ pm2_5_api \in Range(api_data.fields)
    /\ last_seen \in Range(api_data.fields)
    /\ Range(df.columns) = {sensor_index, <<"pm2", "_", "5">>, time_stamp}
    /\ Len(df.data) >= 1

LoadSteps == {"load_connect", "load_execute", "load_commit", "load_close"}
VerifySteps == {"verify_connect", "verify_query", "verify_close"}

\* The response of the end-to-end scenario (12.3 stands as 12).
Pm2_5 == <<"pm2", "_", "5">>
ScenarioBody ==
    [fields |-> <<sensor_index, last_seen, pm2_5_api>>,
     data |-> << <<Num(101), Num(1700000000), Num(12)>> >>]

\* C11: one sensor and one well-formed row of [sensor_index, last_seen,
\* pm2.5] give the row (sensor_index, pm2_5, time_stamp), no quality issue,
\* no hard error and one row submitted for insert.
C11_EndToEnd ==
    (/\ Config.sensors = 1
     /\ Len(http) = 1 /\ http[1].status = 200 /\ http[1].body = ScenarioBody
     /\ pc \in {"rema", "report", "done", "main_check"}
     /\ db.faults = 0 /\ uniqueKey = {})
    => /\ df = [columns |-> <<sensor_index, Pm2_5, time_stamp>>,
                data |-> << <<Num(101), Num(12), Timestamp(1700000000)>> >>]
       /\ issues = <<>>
       /\ stats.quality_errors = 0
       /\ stats.errors = 0
       /\ db.execute = 1

\* C12: verification runs only in a run without hard error, changes no
\* counter, ends at the exit of main() whether it fails or not, and the exit
\* status of a run without hard error is 0 even when verification logged an
\* error.
C12_VerificationContained ==
    /\ [](pc \in VerifySteps => stats.errors = 0)
    /\ [](stats.errors > 0 => db.query = 0)
    /\ [][(pc \in VerifySteps)
            => (stats' = stats /\ pc' \in VerifySteps \cup {"main_exit"})]_vars
    /\ []((pc = "exited" /\ stats.end_time = "set" /\ stats.errors = 0)
            => exitCode = 0)

C12_Witness ==
    /\ pc = "exited"
    /\ stats.errors = 0
    /\ db.query >= 1
    /\ log.ERROR = 1
    /\ exitCode = 0

\* C13: when the validator returns for a table with rows and columns, the
\* next step is the load, the quality counter grows by the number of issues
\* returned, and nothing is raised or counted as a hard error.
C13_IssuesAdvisory ==
    [][(pc = "validate" /\ validate_dataframe(df).ok /\ ~IsEmptyTable(df))
        => /\ pc' = "load_connect"
           /\ issues' = validate_dataframe(df).issues
           /\ stats'.quality_errors = stats.quality_errors + Len(issues')
           /\ stats'.errors = stats.errors
           /\ failedStep' = failedStep
      ]_vars

C13_Witness ==
    /\ Len(issues) = 2
    /\ stats.quality_errors = 2
    /\ stats.purpleair_loaded >= 1
    /\ stats.errors = 0

RECURSIVE Pow2(_)
Pow2(n) == IF n = 0 THEN 1 ELSE 2 * Pow2(n - 1)

\* C17: each of the (at most 5) attempts of the loop is preceded by a wait,
\* 0.5 s before the first and 0.5 s x 2^(k-1) before the k-th.
C17_WaitBeforeEveryAttempt ==
    \A k \in 1..Min(Len(http), 5) : http[k].wait = 500 * Pow2(k - 1)

C17_Witness ==
    /\ Len(http) >= 5
    /\ http[1].wait = 500
    /\ http[5].wait = 8000

Rank(p) ==
    IF p \in {"main", "run_full_etl"} THEN 0
    ELSE IF p \in {"extract", "fetch"} THEN 1
    ELSE IF p = "transform" THEN 2
    ELSE IF p = "validate" THEN 3
    ELSE IF p \in LoadSteps THEN 4
    ELSE IF p = "rema" THEN 5
    ELSE IF p = "report" THEN 6
    ELSE 7

\* C18: the steps go extract, transform, validate, load and never back; a
\* step is reached only with the results of all the steps before it, none of
\* which raised; the secondary source and the report come after the
\* pipeline, with no connection left open.
C18_StepOrder ==
    /\ [][Rank(pc') >= Rank(pc)]_vars
    /\ [][(pc' = "transform" /\ pc # "transform")
            => (pc = "fetch" /\ extractOutcome' = "returned")]_vars
    /\ [][(pc' = "validate" /\ pc # "validate")
            => (/\ pc = "transform"
                /\ transform_purpleair_data(api_data).ok
                /\ df' = transform_purpleair_data(api_data).df)]_vars
    /\ [][(pc' \in LoadSteps /\ pc \notin LoadSteps)
            => (/\ pc = "validate"
                /\ validate_dataframe(df).ok
                /\ df' = df
                /\ conn = 0)]_vars
    /\ [](pc \in {"transform", "validate"} \cup LoadSteps
            => (extractOutcome = "returned" /\ failedStep = "none"))
    /\ []((conn # 0 /\ pc \notin VerifySteps) => pc \in LoadSteps)
    /\ [](pc \in {"rema", "report"} => (conn = 0 /\ txRows = <<>>))

C18_Witness ==
    /\ pc = "report"
    /\ db.commit = 1
    /\ stats.purpleair_loaded >= 1
    /\ stats.quality_errors >= 1

C20_EmptyTableNoLoad ==
    /\ (entry # "upsert_df" /\ extractOutcome = "returned" /\ pc # "transform"
           /\ failedStep # "transform" /\ IsEmptyTable(df))
          => /\ pc \notin LoadSteps
             /\ db.execute = 0
             /\ db.commit = 0
             /\ stats.purpleair_loaded = 0
             /\ stats.errors = 0
             /\ pc \notin VerifySteps \cup {"main_exit", "exited"} => db.connect = 0
    /\ (entry = "upsert_df" /\ IsEmptyTable(df))
          => /\ db.execute = 0
             /\ db.commit = 0
             /\ txRows = <<>>
             /\ table \in {<<>>, <<OldRow>>}

C20_Witness ==
    /\ entry = "run_full_etl"
    /\ extractOutcome = "returned"
    /\ pc = "done"
    /\ Len(df.data) >= 1
    /\ Len(df.columns) = 0
    /\ db.connect = 0
    /\ stats.errors = 0

\* C21: the loaded counter is 0 or equal to the extracted counter; it leaves
\* 0 only in the step where the batch is committed, and then takes the
\* number of rows submitted for insert, whatever number of them the conflict
\* clause skipped.
C21_LoadedCounter ==
    /\ [](stats.purpleair_loaded \in {0, stats.purpleair_extracted})
    /\ [](stats.purpleair_loaded # 0
            => (/\ db.commit = 1
                /\ stats.purpleair_loaded = FrameLen(df)
                /\ stats.purpleair_loaded = db.execute))
    /\ [][stats'.purpleair_loaded # stats.purpleair_loaded
            => (/\ pc = "load_commit"
                /\ stats.purpleair_loaded = 0
                /\ db'.commit = db.commit + 1
                /\ table' = Committed(table, txRows)
                /\ stats'.purpleair_loaded = FrameLen(df))]_vars

C21_Witness ==
    /\ pc = "report"
    /\ stats.purpleair_extracted = 2
    /\ stats.purpleair_loaded = 2
    /\ uniqueKey # {}
    /\ Len(table) = 1

\* C22: a sixth request exists only after five responses 429; it is sent
\* with no wait, and the delay doubled after the fifth 429 (16 s) is never
\* waited.
C22_FinalRequestUnwaited ==
    /\ \A k \in 1..Len(http) : http[k].wait < 16000
    /\ Len(http) > 5
          => /\ Len(http) = 6
             /\ \A k \in 1..5 : http[k].status = 429 /\ http[k].wait > 0
             /\ http[6].wait = 0
             /\ delay = 16000

C22_Witness ==
    /\ Len(http) = 6
    /\ http[5].status = 429
    /\ http[5].wait = 8000
    /\ http[6].wait = 0
    /\ delay = 16000

====
